---- MODULE Spec2Model ----
(***************************************************************************)
(* Staggered-grid finite-difference fields (opesci/fields.py).             *)
(*                                                                         *)
(* One field object is modelled: its attributes are the variables, its     *)
(* methods are the actions.  Python lists indexed by axis are functions    *)
(* with domain 0..n-1; lists that are only appended to are sequences.      *)
(* Grid indices are kept in half grid units (hf == 1), so that x + 1/2 is  *)
(* the offset 1 and x + 1 the offset 2.                                    *)
(***************************************************************************)
EXTENDS Integers, Sequences, FiniteSets, TLC

(* ----------------------------- bounds ---------------------------------- *)
MaxDim == 3
MaxLoc == 2
MaxCalls == 2
MaxDerivOrder == 2
MaxKernels == 1

Dimensions == 1..MaxDim
Locations == 1..MaxLoc
Sides == {0, 1}
Algos == {"robertsson", "levander", "foo"}
Offsets == {0, 1}

(* ------------------------- Python list helpers ------------------------- *)
\* len(l) of a list modelled as a function on 0..n-1
PyLen(l) == Cardinality(DOMAIN l)

\* the empty list; also stands for an attribute that has not been assigned
\* (both make l[k] raise)
Unset == [k \in {} |-> 0]

\* l[k] does not raise
InRange(l, k) == k \in DOMAIN l

\* [v] * n
Repeat(v, n) == [k \in 0..(n - 1) |-> v]

\* (-1)**side
Sign(side) == IF side = 0 THEN 1 ELSE 0 - 1

\* Python 2 integer division n/2 for n >= 0
Half(n) == n \div 2

(* ------------------------------ indices -------------------------------- *)
\* util.hf, one half, in half grid units
hf == 1

\* An index expression: the symbol of axis `sym` (NoSym for a plain number)
\* plus `off` half grid units.
NoSym == 0 - 1
Idx(sym, off) == [sym |-> sym, off |-> off]

\* index + n (n in half units)
Shift(i, n) == [i EXCEPT !.off = @ + n]

\* expr.subs(symbol of axis k, value) on one index
SubsIdx(i, k, value) == IF i.sym = k THEN Shift(value, i.off) ELSE i

\* expr.subs(symbol of axis k, value) on a cell (tuple of indices)
SubsCell(cell, k, value) == [a \in DOMAIN cell |-> SubsIdx(cell[a], k, value)]

(* --------------------------- field set() ------------------------------- *)
\* Field.set stores the staggering it is given
FieldSet(dimension, staggered) ==
  [dimension |-> dimension,
   staggered |-> staggered,
   bc        |-> [x \in 0..dimension |-> Repeat([isNone |-> TRUE, eqs |-> <<>>], 2)]]

\* VField.set: staggered in time and in its own direction
VFieldSet(dimension, direction) ==
  FieldSet(dimension,
           [[[k \in 0..dimension |-> FALSE] EXCEPT ![0] = TRUE]
               EXCEPT ![direction] = TRUE])

\* for i in range(len(direction)): staggered[direction[i]] = True
RECURSIVE StaggerLoop(_, _, _)
StaggerLoop(staggered, direction, i) ==
  IF i >= PyLen(direction) THEN staggered
  ELSE StaggerLoop([staggered EXCEPT ![direction[i]] = TRUE], direction, i + 1)

\* SField.set staggering a shear stress on the first axis of its pair only
SFieldSetFirstAxis(dimension, direction) ==
  LET staggered == [k \in 0..dimension |-> FALSE]
  IN  IF direction[0] = direction[1]
      THEN FieldSet(dimension, staggered)
      ELSE FieldSet(dimension, [staggered EXCEPT ![direction[0]] = TRUE])

\* SField.set: compression stress unstaggered, shear stress staggered on its
\* two axes, never in time
SFieldSet(dimension, direction) ==
  LET staggered == [k \in 0..dimension |-> FALSE]
  IN  IF direction[0] = direction[1]
      THEN FieldSet(dimension, staggered)
      ELSE FieldSet(dimension, StaggerLoop(staggered, direction, 0))

\* RegularField.__init__ passes staggered=[0, 0, 0] whatever the dimension
\* (0 is Python's false: 0 == False)
RegularFieldInit(dimension) == FieldSet(dimension, Repeat(FALSE, 3))

(* ------------------------- symbolic expressions ------------------------ *)
\* An IndexedBase object as far as align looks at it: its class and, for a
\* field, its staggering.
Base(cls, dimension, direction, staggered) ==
  [cls |-> cls, dimension |-> dimension, direction |-> direction,
   staggered |-> staggered]

NoBase == Base("none", 0, Unset, Unset)

\* sympy expression nodes
Symbol(n) == [head |-> "Symbol", atom |-> n, base |-> NoBase, indices |-> Unset, args |-> <<>>]
Number(n) == [head |-> "Number", atom |-> n, base |-> NoBase, indices |-> Unset, args |-> <<>>]
Indexed(b, idx) == [head |-> "Indexed", atom |-> 0, base |-> b, indices |-> idx, args |-> <<>>]
Func(head, args) == [head |-> head, atom |-> 0, base |-> NoBase, indices |-> Unset, args |-> args]

\* align never shifting a field reference
AlignIndexNoShift(self_staggered, b, indices, k) == indices[k]

\* the index align gives axis k of a reference to field b
AlignIndex(self_staggered, b, indices, k) ==
  IF self_staggered[k] = b.staggered[k] THEN indices[k]
  ELSE IF self_staggered[k] THEN Shift(indices[k], hf)
  ELSE Shift(indices[k], 0 - hf)

\* the index align gives position d of a reference to a media parameter
AlignMediaIndex(self_staggered, indices, d) ==
  IF self_staggered[d + 1] THEN Shift(indices[d], hf) ELSE indices[d]

\* Field.align does not raise (a list index out of range raises IndexError)
RECURSIVE AlignOk(_, _, _)
AlignOk(self_dimension, self_staggered, expr) ==
  IF expr.head \in {"Symbol", "Number"} THEN TRUE
  ELSE IF expr.head = "Indexed" THEN
    IF expr.base.cls \notin {"VField", "SField", "Media"} THEN TRUE
    ELSE IF expr.base.cls = "Media" THEN
      \A d \in 0..(self_dimension - 1) :
        /\ InRange(self_staggered, d + 1)
        /\ (self_staggered[d + 1] => InRange(expr.indices, d))
    ELSE \A k \in 0..(PyLen(expr.indices) - 1) :
           InRange(self_staggered, k) /\ InRange(expr.base.staggered, k)
  ELSE \A a \in DOMAIN expr.args : AlignOk(self_dimension, self_staggered, expr.args[a])

\* Field.align
RECURSIVE align(_, _, _)
align(self_dimension, self_staggered, expr) ==
  IF expr.head \in {"Symbol", "Number"} THEN expr
  ELSE IF expr.head = "Indexed" THEN
    IF expr.base.cls \notin {"VField", "SField", "Media"} THEN expr
    ELSE IF expr.base.cls = "Media" THEN
      Indexed(expr.base,
              [d \in DOMAIN expr.indices |->
                 IF d < self_dimension
                 THEN AlignMediaIndex(self_staggered, expr.indices, d)
                 ELSE expr.indices[d]])
    ELSE Indexed(expr.base,
                 [k \in 0..(PyLen(expr.indices) - 1) |->
                    AlignIndex(self_staggered, expr.base, expr.indices, k)])
  ELSE Func(expr.head,
            [a \in DOMAIN expr.args |->
               align(self_dimension, self_staggered, expr.args[a])])

(* ------------------------------- state --------------------------------- *)
VARIABLES
  typ,             \* class of the field object
  dimension,       \* self.dimension
  direction,       \* self.direction (VField: one axis; SField: a pair)
  staggered,       \* self.staggered
  bc,              \* self.bc[axis][side]: None or a list of equations
  indices,         \* self.indices, Unset until set_indices
  spacing,         \* self.spacing, Unset until set_spacing
  order,           \* self.order, Unset until set_order
  d,               \* self.d, the derivative table, Unset until populated
  kernel,          \* self.kernel
  kernel_aligned,  \* self.kernel_aligned
  last,            \* the call made last, its arguments and whether it raised
  ncalls,          \* number of set_free_surface calls made
  nkernels         \* number of set_fd_kernel calls made

vars == <<typ, dimension, direction, staggered, bc, indices, spacing, order,
          d, kernel, kernel_aligned, last, ncalls, nkernels>>

None == [isNone |-> TRUE, eqs |-> <<>>]
NoExpr == [isNone |-> TRUE, expr |-> Number(0)]

Call(op, dd, b, side, algo, raised) ==
  [op |-> op, d |-> dd, b |-> b, side |-> side, algo |-> algo, raised |-> raised]

\* the direction pairs of stress fields on a grid of dimension dim
Pairs(dim) == {[i \in 0..1 |-> IF i = 0 THEN p[1] ELSE p[2]] : p \in (1..dim) \X (1..dim)}

\* Field.__init__: the object after construction with its keyword arguments
Constructed(cls, dim, dir, f) ==
  /\ typ = cls
  /\ dimension = f.dimension
  /\ direction = dir
  /\ staggered = f.staggered
  /\ bc = f.bc

Init ==
  /\ \E dim \in Dimensions :
       \/ \E s \in [0..dim -> BOOLEAN] : Constructed("Field", dim, Unset, FieldSet(dim, s))
       \/ \E dir \in 1..dim : Constructed("VField", dim, Repeat(dir, 1), VFieldSet(dim, dir))
       \/ \E dir \in Pairs(dim) : Constructed("SField", dim, dir, SFieldSet(dim, dir))
       \/ Constructed("RegularField", dim, Unset, RegularFieldInit(dim))
  /\ indices = Unset
  /\ spacing = Unset
  /\ order = Unset
  /\ d = Unset
  /\ kernel = NoExpr
  /\ kernel_aligned = NoExpr
  /\ last = Call("__init__", 0, 0, 0, "", FALSE)
  /\ ncalls = 0
  /\ nkernels = 0

(* ----------------------------- set_fd_kernel --------------------------- *)
\* the fields and media parameters a kernel may refer to
Bases(dim) ==
  {Base("VField", dim, Repeat(dir, 1), VFieldSet(dim, dir).staggered) : dir \in 1..dim}
  \cup {Base("SField", dim, dir, SFieldSet(dim, dir).staggered) :
          dir \in {p \in Pairs(dim) : p[0] <= p[1]}}
  \cup {Base("Media", dim, Unset, Repeat(FALSE, dim + 1)),
        Base("RegularField", dim, Unset, RegularFieldInit(dim).staggered),
        Base("IndexedBase", dim, Unset, Unset)}

\* index tuples of length n: the axis symbols, one of them with an offset
IndexTuples(n) ==
  {[k \in 0..(n - 1) |-> Idx(k, IF k = a THEN p ELSE 0)] :
     a \in 0..(n - 1), p \in Offsets}

IndexLen(b) == IF b.cls = "Media" THEN b.dimension ELSE b.dimension + 1

References(dim) ==
  UNION {{Indexed(b, idx) : idx \in IndexTuples(IndexLen(b))} : b \in Bases(dim)}

PlainReferences(dim) ==
  {Indexed(b, [k \in 0..(IndexLen(b) - 1) |-> Idx(k, 0)]) : b \in Bases(dim)}

\* a symbol and a reference to the velocity field of axis 1, as second operands
Leaves(dim) ==
  {Symbol(1)} \cup {r \in PlainReferences(dim) :
                      r.base.cls = "VField" /\ r.base.direction[0] = 1}

Kernels(dim) ==
  References(dim) \cup {Symbol(1), Number(2)}
  \cup {Func("Add", <<a, b>>) : a \in PlainReferences(dim), b \in Leaves(dim)}
  \cup {Func("Mul", <<Number(2), Func("Add", <<a, Symbol(1)>>)>>) : a \in PlainReferences(dim)}

\* Field.set_fd_kernel: the kernel is stored before align runs
set_fd_kernel(k) ==
  /\ kernel' = [isNone |-> FALSE, expr |-> k]
  /\ IF AlignOk(dimension, staggered, k)
     THEN /\ kernel_aligned' = [isNone |-> FALSE, expr |-> align(dimension, staggered, k)]
          /\ last' = Call("set_fd_kernel", 0, 0, 0, "", FALSE)
     ELSE /\ kernel_aligned' = kernel_aligned
          /\ last' = Call("set_fd_kernel", 0, 0, 0, "", TRUE)
  /\ UNCHANGED <<typ, dimension, direction, staggered, bc, indices, spacing,
                 order, d, ncalls>>

SetFdKernel ==
  /\ nkernels < MaxKernels
  /\ nkernels' = nkernels + 1
  /\ \E k \in Kernels(dimension) : set_fd_kernel(k)

(* ------------------------------ setters -------------------------------- *)
\* the order lists set_order is called with: <<time, axis 1, other axes>>,
\* among them the docstring's [1, 2, 2, 2], odd orders, and axes that differ
OrderTriples ==
  {<<1, 2, 2>>, <<2, 4, 4>>, <<2, 2, 4>>, <<1, 4, 2>>, <<4, 3, 1>>, <<2, 1, 3>>}

OrderVectors(dim) ==
  {[k \in 0..dim |-> IF k = 0 THEN s[1] ELSE IF k = 1 THEN s[2] ELSE s[3]] :
     s \in OrderTriples}

\* Field.set_indices with the index symbols [t, x, y, z]
set_indices ==
  /\ indices' = [k \in 0..dimension |-> Idx(k, 0)]
  /\ last' = Call("set_indices", 0, 0, 0, "", FALSE)
  /\ UNCHANGED <<typ, dimension, direction, staggered, bc, spacing, order, d,
                 kernel, kernel_aligned, ncalls, nkernels>>

\* Field.set_spacing with the spacing symbols [dt, dx, dy, dz]
set_spacing ==
  /\ spacing' = [k \in 0..dimension |-> k]
  /\ last' = Call("set_spacing", 0, 0, 0, "", FALSE)
  /\ UNCHANGED <<typ, dimension, direction, staggered, bc, indices, order, d,
                 kernel, kernel_aligned, ncalls, nkernels>>

\* Field.set_order
set_order(o) ==
  /\ order' = o
  /\ last' = Call("set_order", 0, 0, 0, "", FALSE)
  /\ UNCHANGED <<typ, dimension, direction, staggered, bc, indices, spacing, d,
                 kernel, kernel_aligned, ncalls, nkernels>>

SetOrder == \E o \in OrderVectors(dimension) : set_order(o)

(* ------------------------- populate_derivatives ------------------------ *)
\* range(start, stop, 2) as a set
PyRange2(start, stop) == {a \in start..(stop - 1) : (a - start) % 2 = 0}

\* the accuracy levels populate_derivatives fills for an axis of order o
Accuracies(o) == PyRange2(2, o + 2)

\* Field.calc_derivative / RegularField.calc_derivative: the entry of the
\* table the FD generator returns, kept as the call that made it
calc_derivative(cls, k, n, order_of_derivative) ==
  IF cls = "RegularField"
  THEN [gen |-> "Deriv", k |-> k, n |-> n, deriv |-> order_of_derivative]
  ELSE [gen |-> "Deriv_half", k |-> k, n |-> Half(n), deriv |-> order_of_derivative]

\* DDerivative(name, var, order, max_accuracy), with no approximation yet
DDerivative(var, o, max_accuracy) ==
  [isNone |-> FALSE, var |-> var, order |-> o, max_accuracy |-> max_accuracy,
   fd |-> Unset]

NoDerivative == [isNone |-> TRUE, var |-> 0, order |-> 0, max_accuracy |-> 0, fd |-> Unset]

\* one cell of the table after the loops have filled it
Populated(cls, ax, o, ord) ==
  [DDerivative(ax, o, ord[ax]) EXCEPT
     !.fd = [accuracy \in Accuracies(ord[ax]) |-> calc_derivative(cls, ax, accuracy, o)]]

\* Field.populate_derivatives.  The table is reset first; a missing
\* attribute raises in the first pass of the loops, leaving what was
\* assigned until then.
populate_derivatives(max_order) ==
  LET empty == [x \in 0..dimension |-> Repeat(NoDerivative, max_order + 1)]
  IN
  /\ IF indices = Unset \/ order = Unset
     THEN /\ d' = empty
          /\ last' = Call("populate_derivatives", 0, max_order, 0, "", TRUE)
     ELSE IF spacing = Unset /\ Accuracies(order[0]) # {}
     THEN /\ d' = [empty EXCEPT ![0][1] = DDerivative(0, 1, order[0])]
          /\ last' = Call("populate_derivatives", 0, max_order, 0, "", TRUE)
     ELSE /\ d' = [x \in 0..dimension |->
                     [o \in 0..max_order |->
                        IF o = 0 THEN NoDerivative ELSE Populated(typ, x, o, order)]]
          /\ last' = Call("populate_derivatives", 0, max_order, 0, "", FALSE)
  /\ UNCHANGED <<typ, dimension, direction, staggered, bc, indices, spacing,
                 order, kernel, kernel_aligned, ncalls, nkernels>>

PopulateDerivatives == \E max_order \in 1..MaxDerivOrder : populate_derivatives(max_order)

(* --------------------------- set_free_surface -------------------------- *)
\* Eq(lhs, rhs): rhs is zero, minus a cell of this field, or the solution
\* the algebra engine returned
Zero == [kind |-> "zero", cell |-> Unset]
Neg(cell) == [kind |-> "neg", cell |-> cell]
Solved == [kind |-> "solved", cell |-> Unset]
Eq(lhs, rhs) == [lhs |-> lhs, rhs |-> rhs]

\* eq.subs(symbol of axis k, value)
SubsEq(eq, k, value) ==
  [lhs |-> SubsCell(eq.lhs, k, value),
   rhs |-> [eq.rhs EXCEPT !.cell = SubsCell(@, k, value)]]

\* eq.subs(idx[0], idx[0]+1): the equation one time step later
TimeShift(eq, idx) == SubsEq(eq, idx[0].sym, Shift(idx[0], 2 * hf))

\* a location b, or b +/- n/2, as an index
At(n) == Idx(NoSym, n)

\* for depth in range(n): idx[d] -= (-1)**side; append Eq(self[idx])
RECURSIVE GhostCells(_, _, _, _, _)
GhostCells(eqs, idx, ax, side, n) ==
  IF n <= 0 THEN eqs
  ELSE LET idx1 == [idx EXCEPT ![ax] = Shift(@, 0 - Sign(side) * 2 * hf)]
       IN  GhostCells(Append(eqs, TimeShift(Eq(idx1, Zero), idx1)), idx1, ax, side, n - 1)

\* for depth in range(n): idx[d] -= (-1)**side; idx2[d] += (-1)**side;
\* append Eq(self[idx], -self[idx2])
RECURSIVE MirrorCells(_, _, _, _, _, _)
MirrorCells(eqs, idx, idx2, ax, side, n) ==
  IF n <= 0 THEN eqs
  ELSE LET idx1 == [idx EXCEPT ![ax] = Shift(@, 0 - Sign(side) * 2 * hf)]
           idx3 == [idx2 EXCEPT ![ax] = Shift(@, Sign(side) * 2 * hf)]
       IN  MirrorCells(Append(eqs, TimeShift(Eq(idx1, Neg(idx3)), idx1)),
                       idx1, idx3, ax, side, n - 1)

\* the outcome of a call: the entry it leaves in self.bc[d][side] and
\* whether it raised
Outcome(entry, raised) == [entry |-> entry, raised |-> raised]
Some(eqs) == [isNone |-> FALSE, eqs |-> eqs]

\* VField.set_free_surface, algo == 'levander' (lines 208-242).  `solved`
\* says whether the stress field, its dt and the solve gave a solution; if
\* not, the call raises before self.bc is assigned.
VLevander(old, ax, b, side, solved) ==
  IF indices = Unset \/ ~solved THEN Outcome(old, TRUE)
  ELSE LET shift == IF staggered[ax] THEN hf ELSE 2 * hf
           t     == IF staggered[ax] THEN At(2 * b - hf) ELSE At(2 * b)
           idx   == [indices EXCEPT ![ax] = Shift(@, 0 - Sign(side) * shift)]
           lhs   == SubsCell(idx, indices[ax].sym, t)
       IN  Outcome(Some(<<TimeShift(Eq(lhs, Solved), idx)>>), FALSE)

\* 'robertsson' looping order[d]/2 times instead of order[d]/2 - 1
VRobertssonExtraLayer(old, ax, b, side) ==
  IF indices = Unset THEN Outcome(old, TRUE)
  ELSE LET idx == [indices EXCEPT
                     ![ax] = IF staggered[ax] THEN At(2 * (b - (1 - side)))
                             ELSE At(2 * (b - Sign(side)))]
           eq  == TimeShift(Eq(idx, Zero), idx)
       IN  IF ~InRange(order, ax) THEN Outcome(Some(<<eq>>), TRUE)
           ELSE Outcome(Some(GhostCells(<<eq>>, idx, ax, side, Half(order[ax]))),
                        FALSE)

\* 'robertsson' appending to the entry instead of replacing it
VRobertssonAppend(old, ax, b, side) ==
  IF indices = Unset THEN Outcome(old, TRUE)
  ELSE LET idx == [indices EXCEPT
                     ![ax] = IF staggered[ax] THEN At(2 * (b - (1 - side)))
                             ELSE At(2 * (b - Sign(side)))]
           eq  == TimeShift(Eq(idx, Zero), idx)
       IN  IF ~InRange(order, ax) THEN Outcome(Some(Append(old.eqs, eq)), TRUE)
           ELSE Outcome(Some(GhostCells(Append(old.eqs, eq), idx, ax, side,
                                        Half(order[ax]) - 1)),
                        FALSE)

\* VField.set_free_surface, algo == 'robertsson' (lines 243-259)
VRobertsson(old, ax, b, side) ==
  IF indices = Unset THEN Outcome(old, TRUE)
  ELSE LET idx == [indices EXCEPT
                     ![ax] = IF staggered[ax] THEN At(2 * (b - (1 - side)))
                             ELSE At(2 * (b - Sign(side)))]
           eq  == TimeShift(Eq(idx, Zero), idx)
       IN  IF ~InRange(order, ax) THEN Outcome(Some(<<eq>>), TRUE)
           ELSE Outcome(Some(GhostCells(<<eq>>, idx, ax, side, Half(order[ax]) - 1)),
                        FALSE)

\* VField.set_free_surface
VFieldSetFreeSurface(old, ax, b, side, algo, solved) ==
  IF algo = "levander" THEN VLevander(old, ax, b, side, solved)
  ELSE IF algo = "robertsson" THEN VRobertsson(old, ax, b, side)
  ELSE Outcome(old, TRUE)

\* d in self.direction
InDirection(ax) == \E i \in DOMAIN direction : direction[i] = ax

\* the anti-symmetry part taking the first ghost cell of a staggered field
\* on the wrong side of the boundary
SAntisymmetryWrongSide(ax, b, side) ==
  LET idx  == [indices EXCEPT
                 ![ax] = IF ~staggered[ax] THEN At(2 * b)
                         ELSE At(2 * (b - side))]
      idx2 == [indices EXCEPT
                 ![ax] = IF ~staggered[ax] THEN At(2 * b)
                         ELSE Shift(idx[ax], Sign(side) * 2 * hf)]
      eq1  == TimeShift(IF ~staggered[ax] THEN Eq(idx, Zero) ELSE Eq(idx, Neg(idx2)),
                        idx)
  IN  IF ~InRange(order, ax) THEN Outcome(Some(<<eq1>>), TRUE)
      ELSE Outcome(Some(MirrorCells(<<eq1>>, idx, idx2, ax, side,
                                    Half(order[ax]) - 1)),
                   FALSE)

\* SField.set_free_surface, the anti-symmetry part (lines 355-381)
SAntisymmetry(ax, b, side) ==
  LET idx  == [indices EXCEPT
                 ![ax] = IF ~staggered[ax] THEN At(2 * b)
                         ELSE At(2 * (b - (1 - side)))]
      idx2 == [indices EXCEPT
                 ![ax] = IF ~staggered[ax] THEN At(2 * b)
                         ELSE Shift(idx[ax], Sign(side) * 2 * hf)]
      eq1  == TimeShift(IF ~staggered[ax] THEN Eq(idx, Zero) ELSE Eq(idx, Neg(idx2)),
                        idx)
  IN  IF ~InRange(order, ax) THEN Outcome(Some(<<eq1>>), TRUE)
      ELSE Outcome(Some(MirrorCells(<<eq1>>, idx, idx2, ax, side,
                                    Half(order[ax]) - 1)),
                   FALSE)

\* SField.set_free_surface, a normal stress at a boundary across its
\* direction under 'levander' (lines 319-353): one equation for the cell at
\* b, solved at t+1/2 and moved to t+1
SLevanderNormal(old, ax, b, solved) ==
  IF ~solved THEN Outcome(old, TRUE)
  ELSE LET t   == indices[0]
           idx == [[indices EXCEPT ![0] = Shift(t, hf)] EXCEPT ![ax] = At(2 * b)]
           lhs == SubsCell(idx, t.sym, Shift(t, hf))
       IN  Outcome(Some(<<Eq(lhs, Solved)>>), FALSE)

\* SField.set_free_surface storing nothing only for a shear stress under
\* an algorithm other than 'levander' ("and" for "or")
SFieldSetFreeSurfaceAnd(old, ax, b, side, algo, solved) ==
  IF indices = Unset THEN Outcome(old, TRUE)
  ELSE IF ~InDirection(ax) THEN
    IF algo # "levander" /\ direction[0] # direction[1]
    THEN Outcome(Some(<<>>), FALSE)
    ELSE SLevanderNormal(old, ax, b, solved)
  ELSE SAntisymmetry(ax, b, side)

\* SField.set_free_surface
SFieldSetFreeSurface(old, ax, b, side, algo, solved) ==
  IF indices = Unset THEN Outcome(old, TRUE)
  ELSE IF ~InDirection(ax) THEN
    IF algo # "levander" \/ direction[0] # direction[1]
    THEN Outcome(Some(<<>>), FALSE)
    ELSE SLevanderNormal(old, ax, b, solved)
  ELSE SAntisymmetry(ax, b, side)

\* set_free_surface(d, b, side, algo) on this field; Field and RegularField
\* have no such method, the call raises AttributeError
set_free_surface(ax, b, side, algo, solved) ==
  LET out == IF typ = "VField"
             THEN VFieldSetFreeSurface(bc[ax][side], ax, b, side, algo, solved)
             ELSE IF typ = "SField"
             THEN SFieldSetFreeSurface(bc[ax][side], ax, b, side, algo, solved)
             ELSE Outcome(bc[ax][side], TRUE)
  IN
  /\ bc' = [bc EXCEPT ![ax][side] = out.entry]
  /\ last' = Call("set_free_surface", ax, b, side, algo, out.raised)
  /\ UNCHANGED <<typ, dimension, direction, staggered, indices, spacing, order,
                 d, kernel, kernel_aligned, nkernels>>

SetFreeSurface ==
  /\ ncalls < MaxCalls
  /\ ncalls' = ncalls + 1
  /\ \E ax \in 1..dimension, b \in Locations, side \in Sides, algo \in Algos,
        solved \in BOOLEAN :
       set_free_surface(ax, b, side, algo, solved)

(* --------------------------- specifications ---------------------------- *)
\* alignment: set_fd_kernel calls on the constructed field
NextAlign == SetFdKernel

SpecAlign == Init /\ [][NextAlign]_vars


\* every operation
Next ==
  \/ set_indices
  \/ set_spacing
  \/ SetOrder
  \/ PopulateDerivatives
  \/ SetFdKernel
  \/ SetFreeSurface

Spec == Init /\ [][Next]_vars

\* boundary generation: configuration and set_free_surface calls
NextBC ==
  \/ set_indices
  \/ SetOrder
  \/ SetFreeSurface

SpecBC == Init /\ [][NextBC]_vars

\* the derivative table: configuration and populate_derivatives calls
NextDeriv ==
  \/ set_indices
  \/ set_spacing
  \/ SetOrder
  \/ PopulateDerivatives

SpecDeriv == Init /\ [][NextDeriv]_vars

(* ------------------------------ staggering ----------------------------- *)
\* C1: the staggering set() computes is the field-type rule.  A velocity
\* field is staggered in time and, among the spatial axes, exactly in its
\* direction; a stress field is never staggered in time, a compression
\* stress (equal direction pair) on no axis, a shear stress exactly on the
\* two axes of its direction pair.
C1_StaggeringRule ==
  /\ typ = "VField" =>
       /\ staggered[0]
       /\ \A k \in 1..dimension : staggered[k] = (k = direction[0])
  /\ typ = "SField" =>
       /\ ~staggered[0]
       /\ IF direction[0] = direction[1]
          THEN \A k \in 1..dimension : ~staggered[k]
          ELSE \A k \in 1..dimension :
                 staggered[k] = (k = direction[0] \/ k = direction[1])

\* a 3D shear stress Txy, staggered [False, True, True, False]
C1_Witness ==
  /\ typ = "SField" /\ dimension = 3
  /\ direction[0] = 1 /\ direction[1] = 2
  /\ staggered = [k \in 0..3 |-> k \in {1, 2}]

\* C6: staggered has length dimension+1 and the boundary-condition table
\* has dimension+1 rows of 2 entries, each None until a set_free_surface
\* call populates it.
C6_Shape ==
  /\ PyLen(staggered) = dimension + 1
  /\ DOMAIN bc = 0..dimension
  /\ \A x \in DOMAIN bc : DOMAIN bc[x] = 0..1
  /\ ncalls = 0 => \A x \in DOMAIN bc : \A side \in Sides : bc[x][side] = None

(* ------------------------------ alignment ------------------------------ *)
\* the shift, in half grid units, the alignment rule gives axis k
RuleShift(r_staggered, b_staggered, k) ==
  IF r_staggered[k] = b_staggered[k] THEN 0
  ELSE IF r_staggered[k] /\ ~b_staggered[k] THEN 1
  ELSE 0 - 1

IsFieldRef(e) == e.head = "Indexed" /\ e.base.cls \in {"VField", "SField"}

\* expression a is expression e aligned by the rule: field references
\* shifted axis by axis, symbols and numbers kept, composites rebuilt with
\* the same operator (references to other objects are left open)
RECURSIVE AlignedByRule(_, _, _)
AlignedByRule(r_staggered, e, a) ==
  IF e.head \in {"Symbol", "Number"} THEN a = e
  ELSE IF e.head = "Indexed" THEN
    IsFieldRef(e) =>
      /\ a.head = "Indexed" /\ a.base = e.base
      /\ DOMAIN a.indices = DOMAIN e.indices
      /\ \A k \in DOMAIN e.indices :
           /\ k \in DOMAIN r_staggered
           /\ a.indices[k] =
                Shift(e.indices[k], RuleShift(r_staggered, e.base.staggered, k))
  ELSE /\ a.head = e.head
       /\ Len(a.args) = Len(e.args)
       /\ \A i \in DOMAIN e.args : AlignedByRule(r_staggered, e.args[i], a.args[i])

\* every reference of e is to a field staggered like the reference field
RECURSIVE SameFrame(_, _)
SameFrame(r_staggered, e) ==
  IF e.head \in {"Symbol", "Number"} THEN TRUE
  ELSE IF e.head = "Indexed" THEN
    /\ IsFieldRef(e)
    /\ \A k \in DOMAIN e.indices :
         k \in DOMAIN r_staggered /\ r_staggered[k] = e.base.staggered[k]
  ELSE \A i \in DOMAIN e.args : SameFrame(r_staggered, e.args[i])

\* C2: for every reference field and every expression, align returns the
\* expression with each field reference shifted by the rule (no shift where
\* the staggering agrees, +1/2 where only the reference field is staggered,
\* -1/2 where only the referenced field is), symbols and numbers unchanged,
\* composites rebuilt; an expression already in the reference frame comes
\* back unchanged.
C2_AlignRule ==
  last.op = "set_fd_kernel" =>
    /\ ~last.raised
    /\ ~kernel_aligned.isNone
    /\ AlignedByRule(staggered, kernel.expr, kernel_aligned.expr)
    /\ SameFrame(staggered, kernel.expr) => kernel_aligned.expr = kernel.expr

\* the rule of C2 where the reference field's staggering has the length
\* its dimension asks for (every field but a RegularField off two dimensions)
AlignRuleInRange == PyLen(staggered) = dimension + 1 => C2_AlignRule

\* C7 as claimed: aligning a reference to B with R and the result back with
\* B as reference yields the original reference.
C7_RoundTrip ==
  (last.op = "set_fd_kernel" /\ ~last.raised /\ IsFieldRef(kernel.expr)) =>
    align(kernel.expr.base.dimension, kernel.expr.base.staggered,
          kernel_aligned.expr) = kernel.expr

\* C7 amended: aligning with B itself as reference shifts nothing, so the
\* round trip returns what R.align returned; that is the original reference
\* exactly when R and B are staggered alike on every axis.  R.align raises
\* only where R.staggered is shorter than the index tuple.
C7_RoundTripKeepsShift ==
  (last.op = "set_fd_kernel" /\ IsFieldRef(kernel.expr)) =>
    LET b == kernel.expr.base
    IN  /\ last.raised <=> PyLen(staggered) < PyLen(kernel.expr.indices)
        /\ ~last.raised =>
             /\ AlignOk(b.dimension, b.staggered, kernel_aligned.expr)
             /\ align(b.dimension, b.staggered, kernel_aligned.expr)
                  = kernel_aligned.expr
             /\ (kernel_aligned.expr = kernel.expr) <=>
                  (\A k \in DOMAIN kernel.expr.indices : staggered[k] = b.staggered[k])

\* Vx aligned a reference to the compression stress Txx: shifted on the
\* time and x axes, and aligning back with Txx left the shifts in place
C7_Witness ==
  /\ last.op = "set_fd_kernel" /\ ~last.raised
  /\ typ = "VField" /\ dimension = 3 /\ direction[0] = 1
  /\ IsFieldRef(kernel.expr)
  /\ kernel.expr.base.cls = "SField"
  /\ kernel.expr.base.direction[0] = kernel.expr.base.direction[1]
  /\ kernel_aligned.expr # kernel.expr
  /\ align(3, kernel.expr.base.staggered, kernel_aligned.expr) = kernel_aligned.expr

(* ------------------------- boundary conditions ------------------------- *)
\* the step is a set_free_surface call
IsSetFreeSurface == ncalls' = ncalls + 1

\* the call made last was set_free_surface on a velocity or stress field
AfterSetFreeSurface(algo) ==
  /\ last.op = "set_free_surface"
  /\ last.algo = algo
  /\ typ \in {"VField", "SField"}

\* the entry the last call was about
LastEntry == bc[last.d][last.side]

\* C3: on a velocity or stress field (with its indices and order set),
\* set_free_surface with an algorithm name other than 'robertsson' and
\* 'levander' raises and leaves the boundary-condition table as it was.
C3_UnknownAlgoRaises ==
  [][(/\ IsSetFreeSurface
      /\ typ \in {"VField", "SField"}
      /\ indices # Unset /\ order # Unset
      /\ last'.algo = "foo")
       => (last'.raised /\ bc' = bc)]_vars

\* C4 as claimed: a successful 'levander' call leaves exactly one equation.
C4_LevanderOne ==
  (AfterSetFreeSurface("levander") /\ ~last.raised) =>
    (~LastEntry.isNone /\ Len(LastEntry.eqs) = 1)

\* the number of anti-symmetry equations for an axis of order o
Layers(o) == IF o \div 2 >= 1 THEN o \div 2 ELSE 1

\* C4 amended: a successful 'levander' call leaves exactly one equation on a
\* velocity field and on a compression stress at a boundary across its
\* direction; on a shear stress at a boundary across its direction it leaves
\* none, and on a stress field at a boundary along its direction it leaves
\* the anti-symmetry equations, order[d]/2 of them (at least one).
C4_LevanderCount ==
  (AfterSetFreeSurface("levander") /\ ~last.raised) =>
    /\ ~LastEntry.isNone
    /\ Len(LastEntry.eqs) =
         IF typ = "VField" THEN 1
         ELSE IF last.d # direction[0] /\ last.d # direction[1]
              THEN (IF direction[0] = direction[1] THEN 1 ELSE 0)
              ELSE Layers(order[last.d])

\* 'levander' on Txx at its own x boundary with order[1] = 4: two equations
C4_Witness ==
  /\ AfterSetFreeSurface("levander") /\ ~last.raised
  /\ typ = "SField" /\ direction[0] = 1 /\ direction[1] = 1
  /\ last.d = 1 /\ order[1] = 4
  /\ Len(LastEntry.eqs) = 2

\* the precondition of C5: a configured field, order[d] even and >= 2
RobertssonEvenOrder ==
  /\ AfterSetFreeSurface("robertsson")
  /\ indices # Unset
  /\ InRange(order, last.d)
  /\ order[last.d] >= 2 /\ order[last.d] % 2 = 0

\* C5 as claimed: 'robertsson' on a spatial axis of even order leaves
\* exactly order[d]/2 equations.
C5_RobertssonHalfOrder ==
  RobertssonEvenOrder =>
    /\ ~last.raised
    /\ ~LastEntry.isNone
    /\ Len(LastEntry.eqs) = order[last.d] \div 2

\* C5 amended: 'robertsson' on a spatial axis of even order leaves exactly
\* order[d]/2 equations on a velocity field and on a stress field whose
\* direction contains d; on a stress field whose direction does not contain
\* d it leaves the empty sequence.
C5_RobertssonCount ==
  RobertssonEvenOrder =>
    /\ ~last.raised
    /\ ~LastEntry.isNone
    /\ Len(LastEntry.eqs) =
         IF typ = "SField" /\ last.d # direction[0] /\ last.d # direction[1]
         THEN 0
         ELSE order[last.d] \div 2

\* order[1] = 4 at the lower boundary of axis 1 of a velocity field: two
\* equations in bc[1][0]
C5_Witness ==
  /\ RobertssonEvenOrder
  /\ typ = "VField" /\ last.d = 1 /\ last.side = 0 /\ order[1] = 4
  /\ Len(bc[1][0].eqs) = 2

\* the axis-ax index of a cell is the plain number n (in grid units)
IsAt(cell, ax, n) == cell[ax] = Idx(NoSym, 2 * n)

\* a cell of this field at time t+1, at its own position on every spatial
\* axis but ax
CellAtNextStep(cell, ax) ==
  /\ DOMAIN cell = 0..dimension
  /\ cell[0] = Idx(0, 2)
  /\ \A k \in 1..dimension : k # ax => cell[k] = Idx(k, 0)

\* the equations of entry [ax][side] are anti-symmetric about location b
Antisymmetric(eqs, ax, side, b) ==
  \A n \in 1..Len(eqs) :
    LET j == n - 1
        eq == eqs[n]
    IN  /\ CellAtNextStep(eq.lhs, ax)
        /\ IF ~staggered[ax]
           THEN IF j = 0
                THEN IsAt(eq.lhs, ax, b) /\ eq.rhs = Zero
                ELSE /\ IsAt(eq.lhs, ax, b - j * Sign(side))
                     /\ eq.rhs.kind = "neg"
                     /\ CellAtNextStep(eq.rhs.cell, ax)
                     /\ IsAt(eq.rhs.cell, ax, b + j * Sign(side))
           ELSE /\ IsAt(eq.lhs, ax, (b - (1 - side)) - j * Sign(side))
                /\ eq.rhs.kind = "neg"
                /\ CellAtNextStep(eq.rhs.cell, ax)
                /\ IsAt(eq.rhs.cell, ax, (b - side) + j * Sign(side))

FrameOfSetFreeSurface ==
  /\ \A x \in DOMAIN bc : \A side \in Sides :
       (x # last'.d \/ side # last'.side) => bc'[x][side] = bc[x][side]
  /\ DOMAIN bc' = DOMAIN bc
  /\ UNCHANGED <<dimension, staggered, direction, kernel, kernel_aligned, d>>

\* the entry the call of this step leaves when made on an empty table
ResultAlone ==
  IF typ = "VField"
  THEN VFieldSetFreeSurface(None, last'.d, last'.b, last'.side, last'.algo, TRUE).entry
  ELSE SFieldSetFreeSurface(None, last'.d, last'.b, last'.side, last'.algo, TRUE).entry

\* C10 as claimed: a set_free_surface call changes no entry but its own and
\* no other attribute; a call that succeeds replaces the entry by its own
\* result and a call that fails leaves the entry as it was.
C10_Frame ==
  [][(IsSetFreeSurface /\ typ \in {"VField", "SField"}) =>
       /\ FrameOfSetFreeSurface
       /\ ~last'.raised => bc'[last'.d][last'.side] = ResultAlone
       /\ last'.raised => bc' = bc]_vars

\* C10 amended: as claimed, but a call that fails may have written: a
\* 'robertsson' or anti-symmetry call on a field whose order is not set
\* raises after storing its first equation, which replaces the entry.
C10_FrameWithPartialWrite ==
  [][(IsSetFreeSurface /\ typ \in {"VField", "SField"}) =>
       /\ FrameOfSetFreeSurface
       /\ ~last'.raised => bc'[last'.d][last'.side] = ResultAlone
       /\ (last'.raised /\ bc' # bc) =>
            /\ order = Unset /\ indices # Unset
            /\ bc'[last'.d][last'.side] = ResultAlone
            /\ Len(bc'[last'.d][last'.side].eqs) = 1]_vars

\* two successful calls, the second on an entry the first did not touch
C10_Witness ==
  /\ ncalls = 2 /\ last.op = "set_free_surface" /\ ~last.raised
  /\ typ \in {"VField", "SField"}
  /\ Len(LastEntry.eqs) >= 1
  /\ \E x \in DOMAIN bc : \E side \in Sides :
       /\ (x # last.d \/ side # last.side)
       /\ ~bc[x][side].isNone /\ Len(bc[x][side].eqs) >= 1

(* --------------------------- derivative table -------------------------- *)
\* the even integers from 2 up to o
EvenUpTo(o) == {a \in 2..o : a % 2 = 0}

\* C8: after populate_derivatives(max_order), for every axis and every
\* derivative order 1..max_order the accuracy keys of the entry are exactly
\* the even integers from 2 up to order[axis]; none exceeds order[axis].
C8_AccuracyKeys ==
  (last.op = "populate_derivatives" /\ ~last.raised) =>
    \A x \in 0..dimension : \A o \in 1..last.b :
      /\ ~d[x][o].isNone
      /\ DOMAIN d[x][o].fd = EvenUpTo(order[x])
      /\ \A a \in DOMAIN d[x][o].fd : a <= d[x][o].max_accuracy

====
